---- MODULE Spec2Model ----
(***************************************************************************)
(* ISPFCCComplainer: the SQLite store (speed_tests, complaints), the       *)
(* command-line flows that read and append to it, and the laptop client.   *)
(* Every invocation is a fresh, sequential process; the store and the      *)
(* wall clock are the only state shared between invocations.               *)
(*                                                                         *)
(* A flow that reaches a real filing attempt is modelled in two steps: the *)
(* step that runs the flow up to the start of the browser automation       *)
(* (pc = "filing"), and the step in which the automation ends with an      *)
(* outcome and the flow runs to its return or to an escaping exception.    *)
(* The clock may advance between the two, and every datetime.now() a step  *)
(* evaluates gives an instant that is not before the preceding one.        *)
(***************************************************************************)
EXTENDS Integers, Sequences, FiniteSets, TLC

(* Bounds of the model: days and instants of a day, rows of speed_tests    *)
(* and of complaints that the flows write, rows of both tables together,   *)
(* and samples of one day in the stores the report flows start from.       *)
MaxDay == 2
MaxTod == 1
MaxTests == 2
MaxComplaints == 2
MaxRows == 3
MaxSamples == 3

(* Calendar days and instants within a day; a timestamp is [day, tod]. *)
Days == 1..MaxDay
Tods == 0..MaxTod

Instants == [day : Days, tod : Tods]

(* Download throughputs a measurement may report, in Mbps. *)
Downloads == {650, 700}

(* A string is the sequence of its characters; os.getenv gives None (the   *)
(* empty tuple) for an absent key and otherwise the value, wrapped.        *)
Unset == << >>

Str(chars) == << chars >>

(***************************************************************************)
(* Python numbers                                                          *)
(*                                                                         *)
(* A Python float is an IEEE 754 binary64 value.  It is kept here as       *)
(* [kind, neg, m, e]: a finite value is (-1)^neg * m * 2^e with m below    *)
(* 2^53 and e at least -1074, m holding 53 bits unless e = -1074; zero has *)
(* m = 0 and e = 0.  The significand m and every intermediate integer is   *)
(* an unbounded natural number, kept as the sequence of its base-2^14      *)
(* digits, least significant first and without leading zeros.              *)
(***************************************************************************)
RECURSIVE Pow2(_)
Pow2(k) == IF k = 0 THEN 1 ELSE 2 * Pow2(k - 1)

LimbBits == 14

LimbBase == Pow2(LimbBits)

(* Bits of a significand, least exponent of the unit in the last place,   *)
(* and the exponent at which a value overflows to infinity.               *)
MantBits == 53

MinExp == -1074

MaxTopExp == 1024

(* Fraction bits kept by a division before it is rounded. *)
RatioBits == 6 * LimbBits

RECURSIVE Pow10(_)
Pow10(k) == IF k = 0 THEN 1 ELSE 10 * Pow10(k - 1)

Min2(a, b) == IF a < b THEN a ELSE b

Max2(a, b) == IF a < b THEN b ELSE a

RECURSIVE big(_)
big(n) == IF n = 0 THEN << >> ELSE << n % LimbBase >> \o big(n \div LimbBase)

RECURSIVE big_to_int(_)
big_to_int(x) == IF x = << >> THEN 0 ELSE Head(x) + LimbBase * big_to_int(Tail(x))

RECURSIVE big_trim(_)
big_trim(x) ==
  IF x # << >> /\ x[Len(x)] = 0 THEN big_trim(SubSeq(x, 1, Len(x) - 1)) ELSE x

RECURSIVE big_add(_, _, _)
big_add(x, y, carry) ==
  IF x = << >> /\ y = << >>
  THEN IF carry = 0 THEN << >> ELSE << carry >>
  ELSE LET a == IF x = << >> THEN 0 ELSE Head(x)
           b == IF y = << >> THEN 0 ELSE Head(y)
           s == a + b + carry
       IN  << s % LimbBase >> \o
           big_add(IF x = << >> THEN << >> ELSE Tail(x),
                   IF y = << >> THEN << >> ELSE Tail(y), s \div LimbBase)

RECURSIVE big_mul_small(_, _, _)
big_mul_small(x, k, carry) ==
  IF x = << >>
  THEN big(carry)
  ELSE LET s == Head(x) * k + carry
       IN  << s % LimbBase >> \o big_mul_small(Tail(x), k, s \div LimbBase)

RECURSIVE big_mul(_, _)
big_mul(x, y) ==
  IF y = << >>
  THEN << >>
  ELSE big_trim(big_add(big_mul_small(x, Head(y), 0),
                        << 0 >> \o big_mul(x, Tail(y)), 0))

(* Long division by a divisor below 2^17, from the most significant digit: *)
(* q holds the quotient digits found so far and r the running remainder.   *)
RECURSIVE big_divmod_from(_, _, _, _)
big_divmod_from(x, d, r, q) ==
  IF Len(q) = Len(x)
  THEN [q |-> big_trim(q), r |-> r]
  ELSE LET cur == r * LimbBase + x[Len(x) - Len(q)]
       IN  big_divmod_from(x, d, cur % d, << cur \div d >> \o q)

big_divmod_small(x, d) == big_divmod_from(x, d, 0, << >>)

(* -1, 0 or 1 as x is below, equal to or above y. *)
RECURSIVE big_cmp(_, _)
big_cmp(x, y) ==
  IF Len(x) # Len(y) THEN (IF Len(x) < Len(y) THEN -1 ELSE 1)
  ELSE IF x = << >> THEN 0
  ELSE IF x[Len(x)] # y[Len(y)] THEN (IF x[Len(x)] < y[Len(y)] THEN -1 ELSE 1)
  ELSE big_cmp(SubSeq(x, 1, Len(x) - 1), SubSeq(y, 1, Len(y) - 1))

RECURSIVE bit_length_small(_)
bit_length_small(n) == IF n = 0 THEN 0 ELSE 1 + bit_length_small(n \div 2)

bit_length(x) ==
  IF x = << >> THEN 0 ELSE LimbBits * (Len(x) - 1) + bit_length_small(x[Len(x)])

big_odd(x) == x # << >> /\ Head(x) % 2 = 1

big_shl(x, k) ==
  big_trim(big_mul_small([i \in 1..(k \div LimbBits) |-> 0] \o x,
                         Pow2(k % LimbBits), 0))

(* x shifted right by k bits, and whether a dropped bit was set. *)
big_shr(x, k) ==
  LET limbs == k \div LimbBits
  IN  IF limbs >= Len(x)
      THEN [q |-> << >>, sticky |-> x # << >>]
      ELSE LET dm == big_divmod_small(SubSeq(x, limbs + 1, Len(x)),
                                      Pow2(k % LimbBits))
           IN  [q |-> dm.q,
                sticky |-> dm.r # 0 \/ \E i \in 1..limbs : x[i] # 0]

(* x / 2^k (k >= 1) rounded to the nearest integer, ties to even; sticky   *)
(* says that the exact value lies above x.  s1 is x without its k - 1 low  *)
(* bits, q is x without its k low bits.                                    *)
round_half_even_from(s1, q, sticky) ==
  IF big_odd(s1.q) /\ (s1.sticky \/ sticky \/ big_odd(q))
  THEN big_add(q, << >>, 1)
  ELSE q

round_half_even(x, k, sticky) ==
  round_half_even_from(big_shr(x, k - 1), big_shr(x, k).q, sticky)

float_zero(neg) == [kind |-> "finite", neg |-> neg, m |-> << >>, e |-> 0]

float_inf(neg) == [kind |-> "inf", neg |-> neg, m |-> << >>, e |-> 0]

float_nan == [kind |-> "nan", neg |-> FALSE, m |-> << >>, e |-> 0]

(* The binary64 value nearest to (-1)^neg * (n + fraction) * 2^e, ties to  *)
(* even, where sticky says that the fraction is not zero.                  *)
(* The steps of float_round, last to first: the significand m * 2^e is   *)
(* shifted left to fill 53 bits where the exponent allows it; before that, *)
(* a rounding that carried into a 54th bit is halved; before that, the low *)
(* bits that do not fit are rounded away.                                  *)
float_normalise(neg, m, e) ==
  LET sh == Min2(MantBits - bit_length(m), e - MinExp)
  IN  IF m = << >> THEN float_zero(neg)
      ELSE IF e + bit_length(m) > MaxTopExp THEN float_inf(neg)
      ELSE [kind |-> "finite", neg |-> neg, m |-> big_shl(m, sh), e |-> e - sh]

float_carry(neg, m, e) ==
  LET carried == bit_length(m) > MantBits
  IN  float_normalise(neg, IF carried THEN big_shr(m, 1).q ELSE m,
                      IF carried THEN e + 1 ELSE e)

float_round(neg, n, e, sticky) ==
  LET drop == Max2(bit_length(n) - MantBits, MinExp - e)
  IN  float_carry(neg, IF drop <= 0 THEN n ELSE round_half_even(n, drop, sticky),
                  IF drop <= 0 THEN e ELSE e + drop)

(* num / den of two ints (den positive, below 2^17), correctly rounded. *)
float_of_ratio(num, den) ==
  LET n == IF num < 0 THEN -num ELSE num
      dm == big_divmod_small(big_shl(big(n), RatioBits), den)
  IN  float_round(num < 0, dm.q, -RatioBits, dm.r # 0)

float_of_int(n) == float_round(n < 0, big(IF n < 0 THEN -n ELSE n), 0, FALSE)

float_mul(x, y) ==
  LET neg == x.neg # y.neg
      zero(v) == v.kind = "finite" /\ v.m = << >>
  IN  IF x.kind = "nan" \/ y.kind = "nan" THEN float_nan
      ELSE IF x.kind = "inf" \/ y.kind = "inf"
           THEN IF zero(x) \/ zero(y) THEN float_nan ELSE float_inf(neg)
      ELSE float_round(neg, big_mul(x.m, y.m), x.e + y.e, FALSE)

(* -1, 0 or 1 as |x| is below, equal to or above |y|, neither being NaN. *)
float_cmp_abs(x, y) ==
  LET rank(v) == IF v.kind = "inf" THEN MaxTopExp + 1
                 ELSE IF v.m = << >> THEN MinExp - 1
                 ELSE v.e + bit_length(v.m)
  IN  IF rank(x) # rank(y) THEN (IF rank(x) < rank(y) THEN -1 ELSE 1)
      ELSE IF x.kind = "inf" \/ x.m = << >> THEN 0
      ELSE big_cmp(big_shl(x.m, x.e - Min2(x.e, y.e)),
                   big_shl(y.m, y.e - Min2(x.e, y.e)))

(* x < y *)
float_lt(x, y) ==
  LET zero(v) == v.kind = "finite" /\ v.m = << >>
  IN  /\ x.kind # "nan" /\ y.kind # "nan"
      /\ IF zero(x) /\ zero(y) THEN FALSE
         ELSE IF x.neg # y.neg THEN x.neg
         ELSE float_cmp_abs(x, y) = (IF x.neg THEN 1 ELSE -1)

(* x == y *)
float_eq(x, y) == x.kind # "nan" /\ y.kind # "nan" /\ ~ float_lt(x, y) /\ ~ float_lt(y, x)

(* x >= y *)
float_ge(x, y) == float_lt(y, x) \/ float_eq(x, y)

(* x <= y *)
float_le(x, y) == float_ge(y, x)

(* Configs that load_config returns: ADVERTISED_SPEED_MBPS = 1000 with     *)
(* THRESHOLD_PERCENT 70 and notification configured, or THRESHOLD_PERCENT  *)
(* 72 without it, and the two values of ADVERTISED_SPEED_MBPS that float()  *)
(* accepts and load_config passes on unchecked, "0" (0.0) and "nan", with  *)
(* THRESHOLD_PERCENT 70; SMTP_PORT is left at its default.                 *)
Configs ==
  { [advertised |-> float_of_int(1000), percent |-> 70, smtp_server |-> Str(<<"x">>),
     smtp_port |-> 587, notification_email |-> Str(<<"x">>)],
    [advertised |-> float_of_int(1000), percent |-> 72, smtp_server |-> Unset,
     smtp_port |-> 587, notification_email |-> Str(<<"x">>)],
    [advertised |-> float_zero(FALSE), percent |-> 70, smtp_server |-> Unset,
     smtp_port |-> 587, notification_email |-> Unset],
    [advertised |-> float_nan, percent |-> 70, smtp_server |-> Str(<<"x">>),
     smtp_port |-> 587, notification_email |-> Str(<<"x">>)] }

NoExit == -1

VARIABLES
  speed_tests,  \* rows of table speed_tests, in insertion order
  complaints,   \* rows of table complaints, in insertion order
  now,          \* the wall clock, [day, tod]
  flow,         \* entry point of the current (or last) invocation
  pc,           \* "idle" | "filing" | "done"
  args,         \* command-line arguments and Config of the invocation
  loc,          \* locals the flow carries into the filing step, or a query's answer
  exit_code,    \* value returned by main(), NoExit while running or on a crash
  exc,          \* exception that escaped main(), "none" otherwise
  outcome,      \* how the browser automation of this invocation ended
  attempts,     \* real filing attempts started by this invocation
  aggregated,   \* whether statistics or complaint text were computed
  emails,       \* notifier invocations of this invocation
  c0,           \* table complaints when the invocation started
  s0,           \* table speed_tests when the invocation started
  day0,         \* calendar day on which the invocation started
  db_open       \* whether the invocation has constructed a Database

vars == << speed_tests, complaints, now, flow, pc, args, loc, exit_code, exc,
           outcome, attempts, aggregated, emails, c0, s0, day0, db_open >>

(***************************************************************************)
(* Config                                                                  *)
(***************************************************************************)

(* self.advertised_speed_mbps * (self.threshold_percent / 100): the int    *)
(* percent is divided by 100 into a float, which then multiplies the float *)
(* advertised speed; each of the two operations rounds.                    *)
threshold_speed_mbps_intdiv(cfg) ==
  float_mul(cfg.advertised, float_of_int(cfg.percent \div 100))

threshold_speed_mbps(cfg) == float_mul(cfg.advertised, float_of_ratio(cfg.percent, 100))

(* download / config.advertised_speed_mbps, the percentage the flows print *)
(* and put into their texts: float division raises ZeroDivisionError when  *)
(* the divisor is 0.0 or -0.0 and gives a float (nan, inf or finite)       *)
(* otherwise.                                                              *)
percent_of_advertised_raises(cfg) ==
  cfg.advertised.kind = "finite" /\ cfg.advertised.m = << >>

(* The single-test flow returns 0 when                                     *)
(* result.download_mbps >= config.threshold_speed_mbps and goes on to file *)
(* otherwise.                                                              *)
below_threshold(download_mbps, cfg) ==
  ~ float_ge(float_of_int(download_mbps), threshold_speed_mbps(cfg))

(* Truth value of an optional string: None and "" are false. *)
truthy(value) == value # Unset /\ value # Str(<< >>)

email_enabled_either(cfg) == truthy(cfg.smtp_server) \/ truthy(cfg.notification_email)

(* bool(self.smtp_server and self.notification_email) *)
email_enabled(cfg) == truthy(cfg.smtp_server) /\ truthy(cfg.notification_email)

(***************************************************************************)
(* Database                                                                *)
(***************************************************************************)

(* datetime.isoformat() text compared as TEXT by SQLite: day first. *)
ts_before(a, b) == a.day < b.day \/ (a.day = b.day /\ a.tod < b.tod)

(* date(timestamp) of a stored row, and date.strftime('%Y-%m-%d'). *)
date_of(ts) == ts.day

next_id_reused(table) == IF table = << >> THEN 1 ELSE table[Len(table)].id

(* AUTOINCREMENT primary key of the next row of a table. *)
next_id(table) == Len(table) + 1

save_speed_test(table, ts, download_mbps) ==
  Append(table, [id |-> next_id(table), timestamp |-> ts, download_mbps |-> download_mbps])

save_complaint_overwrite(table, ts, speed_test_id, status) ==
  IF table = << >>
    THEN << [id |-> 1, timestamp |-> ts, speed_test_id |-> speed_test_id, status |-> status] >>
    ELSE [table EXCEPT ![Len(table)] =
            [id |-> Len(table), timestamp |-> ts, speed_test_id |-> speed_test_id,
             status |-> status]]

save_complaint(table, ts, speed_test_id, status) ==
  Append(table, [id |-> next_id(table), timestamp |-> ts,
                 speed_test_id |-> speed_test_id, status |-> status])

(* Rows of a sequence in ascending timestamp order; rows with equal        *)
(* timestamps keep their insertion order.                                  *)
RECURSIVE sorted_insert(_, _)
sorted_insert(sorted, row) ==
  IF sorted = << >> THEN << row >>
  ELSE IF ts_before(row.timestamp, Head(sorted).timestamp)
    THEN << row >> \o sorted
    ELSE << Head(sorted) >> \o sorted_insert(Tail(sorted), row)

RECURSIVE order_by_timestamp(_)
order_by_timestamp(rows) ==
  IF rows = << >> THEN << >>
  ELSE sorted_insert(order_by_timestamp(SubSeq(rows, 1, Len(rows) - 1)), rows[Len(rows)])

get_speed_tests_for_date_window(table, date) ==
  order_by_timestamp(SelectSeq(table, LAMBDA r :
    /\ ts_before([day |-> date.day - 1, tod |-> date.tod], r.timestamp)
    /\ ~ ts_before(date, r.timestamp)))

(* WHERE date(timestamp) = date.strftime('%Y-%m-%d') ORDER BY timestamp ASC *)
get_speed_tests_for_date(table, date) ==
  order_by_timestamp(SelectSeq(table, LAMBDA r : date_of(r.timestamp) = date_of(date)))

SuccessStatuses == {"filed", "daily_filed"}

accepted_status_any(status) == TRUE

accepted_status(status) == status \in SuccessStatuses

(* WHERE date(timestamp) = ? AND status IN ('filed', 'daily_filed')        *)
(* ORDER BY timestamp DESC LIMIT 1; None is the empty sequence.            *)
get_daily_complaint_for_date(table, day) ==
  LET match == { i \in 1..Len(table) :
                   /\ date_of(table[i].timestamp) = day
                   /\ accepted_status(table[i].status) }
      latest == { i \in match :
                   \A j \in match : ~ ts_before(table[i].timestamp, table[j].timestamp) }
  IN IF match = {} THEN << >>
     ELSE << table[CHOOSE i \in latest : \A j \in latest : i <= j] >>

(***************************************************************************)
(* External collaborators                                                  *)
(***************************************************************************)

(* Ways the external speedtest-cli run can end. *)
Measurements == {"ok", "nonzero_exit", "timeout", "unparsable", "missing_field", "no_binary"}

run_speed_test_unwrapped(m) ==
  CASE m = "ok" -> "ok"
    [] m \in {"nonzero_exit", "timeout", "unparsable"} -> "RuntimeError"
    [] m = "missing_field" -> "KeyError"
    [] m = "no_binary" -> "FileNotFoundError"

(* run_speed_test: "ok" or the type of the exception it raises. *)
run_speed_test(m) ==
  CASE m = "ok" -> "ok"
    [] m \in {"nonzero_exit", "timeout", "unparsable", "missing_field"} -> "RuntimeError"
    [] m = "no_binary" -> "FileNotFoundError"

(* Ways the browser automation of one filing attempt can end. *)
SubmissionErrors == {"login_failure", "challenge_timeout", "validation_error", "still_on_form"}

Outcomes == {"success", "launch_error", "interrupt"} \cup SubmissionErrors

file_fcc_complaint_raw(oc) ==
  CASE oc = "success" -> "True"
    [] oc \in SubmissionErrors -> "PlaywrightError"
    [] oc = "launch_error" -> "PlaywrightError"
    [] oc = "interrupt" -> "KeyboardInterrupt"

(* fcc_complainer.file_fcc_complaint with dry_run = False: "True" or the   *)
(* type of the exception it raises.  The browser is launched before the    *)
(* try block; inside it every Exception becomes a RuntimeError, and a      *)
(* KeyboardInterrupt is no Exception.                                      *)
file_fcc_complaint(oc) ==
  CASE oc = "success" -> "True"
    [] oc \in SubmissionErrors -> "RuntimeError"
    [] oc = "launch_error" -> "PlaywrightError"
    [] oc = "interrupt" -> "KeyboardInterrupt"

(***************************************************************************)
(* Invocations                                                             *)
(***************************************************************************)

NoDateArg == 0
InvalidDate == -1
DateArgs == {InvalidDate, NoDateArg} \cup Days

(* The datetime the flows query with: strptime gives midnight of the named *)
(* day, the default is datetime.now() - timedelta(days=1).                 *)
report_date(date_arg, clock) ==
  IF date_arg = NoDateArg THEN [day |-> clock.day - 1, tod |-> clock.tod]
  ELSE [day |-> date_arg, tod |-> 0]

(* Flows whose process constructs a Database once load_config has          *)
(* returned; the laptop client reads through export_daily_data on the      *)
(* capture host and constructs none.                                       *)
opens_database(f) ==
  f \in {"speed_test", "history", "complaints", "daily_report", "daily_complaint",
         "export", "lookup", "query"}

(* A process is started only when no other invocation is running. *)
Start(f, a) ==
  /\ pc = "idle"
  /\ flow' = f
  /\ args' = a
  /\ c0' = complaints
  /\ s0' = speed_tests
  /\ day0' = now.day
  /\ outcome' = "none"
  /\ db_open' = opens_database(f)

(* An invocation that does not read the clock. *)
Begin(f, a) == Start(f, a) /\ UNCHANGED now

(* What datetime.now() may give when it is evaluated at or after instant   *)
(* t: the process start, a started measurement or an earlier read.         *)
datetime_now(t) == { u \in Instants : ~ ts_before(u, t) }

Return(code) == pc' = "done" /\ exit_code' = code /\ exc' = "none"

Raise(e) == pc' = "done" /\ exit_code' = NoExit /\ exc' = e

(* No invocation is running. *)
NoProcess ==
  /\ flow = "none"
  /\ pc = "idle"
  /\ args = << >>
  /\ loc = << >>
  /\ exit_code = NoExit
  /\ exc = "none"
  /\ outcome = "none"
  /\ attempts = 0
  /\ aggregated = FALSE
  /\ emails = 0
  /\ c0 = << >>
  /\ s0 = << >>
  /\ day0 = 0
  /\ db_open = FALSE

(* The store of a fresh installation: _ensure_tables has created two       *)
(* empty tables.                                                           *)
Init ==
  /\ speed_tests = << >>
  /\ complaints = << >>
  /\ now = [day |-> 1, tod |-> 0]
  /\ NoProcess

(* sys.exit(main()): the process ends; the store and the clock remain. *)
Exit ==
  /\ pc = "done"
  /\ flow' = "none"
  /\ pc' = "idle"
  /\ args' = << >>
  /\ loc' = << >>
  /\ exit_code' = NoExit
  /\ exc' = "none"
  /\ outcome' = "none"
  /\ attempts' = 0
  /\ aggregated' = FALSE
  /\ emails' = 0
  /\ c0' = << >>
  /\ s0' = << >>
  /\ day0' = 0
  /\ db_open' = FALSE
  /\ UNCHANGED << speed_tests, complaints, now >>

(* The clock advances within the day or to the start of the next day,     *)
(* between invocations and while an invocation waits for the browser      *)
(* automation.  The time that passes within a step of a flow is part of    *)
(* that step: see datetime_now.                                            *)
Tick ==
  /\ pc \in {"idle", "filing"}
  /\ \/ now.tod < MaxTod /\ now' = [now EXCEPT !.tod = now.tod + 1]
     \/ now.day < MaxDay /\ now' = [day |-> now.day + 1, tod |-> 0]
  /\ UNCHANGED << speed_tests, complaints, flow, pc, args, loc, exit_code, exc,
                  outcome, attempts, aggregated, emails, c0, s0, day0, db_open >>

(***************************************************************************)
(* main.py: single-test flow                                               *)
(***************************************************************************)

(* Exit code of _run_speed_test_flow once file_fcc_complaint has ended     *)
(* with r ("True" or a RuntimeError).                                      *)
speed_test_flow_exit(r) == IF r = "True" THEN 2 ELSE 1

(* Status of the Complaint saved by _run_speed_test_flow. *)
speed_test_flow_status(r) == IF r = "True" THEN "filed" ELSE "failed"

(* main() without --history, --complaints, --daily-report: the flow up to  *)
(* its return or to the start of the browser automation.  The measurement  *)
(* ends at t_sample (speedtest-cli runs for up to two minutes), which      *)
(* run_speed_test stamps on the sample; the record of a dry run is stamped *)
(* by a second datetime.now(), t_record.  Once the sample is saved the flow *)
(* prints its percentage of the advertised speed, before it looks at       *)
(* --test-only and at the threshold.                                       *)
RunSpeedTestFlow(cfg, dry_run, no_email, test_only, m, download, t_sample, t_record) ==
  /\ Start("speed_test", [cfg |-> cfg, dry_run |-> dry_run, no_email |-> no_email,
                          test_only |-> test_only, measurement |-> m])
  /\ t_sample \in datetime_now(now)
  /\ t_record \in datetime_now(t_sample)
  /\ emails' = 0
  /\ IF run_speed_test(m) = "RuntimeError" THEN
       /\ t_record = t_sample /\ now' = t_sample
       /\ Return(1)
       /\ attempts' = 0 /\ aggregated' = FALSE
       /\ UNCHANGED << speed_tests, complaints, loc >>
     ELSE IF run_speed_test(m) # "ok" THEN
       /\ t_record = t_sample /\ now' = t_sample
       /\ Raise(run_speed_test(m))
       /\ attempts' = 0 /\ aggregated' = FALSE
       /\ UNCHANGED << speed_tests, complaints, loc >>
     ELSE
       /\ Len(speed_tests) < MaxTests
       /\ Len(speed_tests) + Len(complaints) < MaxRows
       /\ speed_tests' = save_speed_test(speed_tests, t_sample, download)
       /\ loc' = [speed_test_id |-> next_id(speed_tests)]
       /\ IF percent_of_advertised_raises(cfg) THEN
            /\ t_record = t_sample /\ now' = t_sample
            /\ Raise("ZeroDivisionError")
            /\ attempts' = 0 /\ aggregated' = FALSE
            /\ UNCHANGED complaints
          ELSE IF test_only \/ ~ below_threshold(download, cfg) THEN
            /\ t_record = t_sample /\ now' = t_sample
            /\ Return(0)
            /\ attempts' = 0 /\ aggregated' = FALSE
            /\ UNCHANGED complaints
          ELSE IF dry_run THEN
            /\ Len(complaints) < MaxComplaints
            /\ Len(speed_tests) + Len(complaints) + 1 < MaxRows
            /\ complaints' = save_complaint(complaints, t_record, next_id(speed_tests),
                                            "dry_run")
            /\ now' = t_record
            /\ Return(2)
            /\ attempts' = 0 /\ aggregated' = TRUE
          ELSE
            /\ Len(complaints) < MaxComplaints
            /\ Len(speed_tests) + Len(complaints) + 1 < MaxRows
            /\ t_record = t_sample /\ now' = t_sample
            /\ pc' = "filing" /\ exit_code' = NoExit /\ exc' = "none"
            /\ attempts' = 1 /\ aggregated' = TRUE
            /\ UNCHANGED complaints

(* Ways one SMTP conversation can end. *)
Deliveries == {"sent", "smtp_error"}

(* email_notifier.send_notification_email: "True" or the type of the       *)
(* exception it raises; every Exception of the SMTP conversation becomes   *)
(* a RuntimeError.                                                         *)
send_notification_email(cfg, delivery) ==
  IF ~ email_enabled(cfg) THEN "RuntimeError"
  ELSE IF delivery = "sent" THEN "True"
  ELSE "RuntimeError"

(* try: send_complaint_notification(...) except RuntimeError: a warning is *)
(* printed and the flow goes on to its return statement.                   *)
after_notification(code, sent) == code

(* file_fcc_complaint ends with outcome oc; the flow records it, sends the *)
(* notification of a filed complaint and returns, or the exception escapes *)
(* main().                                                                 *)
SpeedTestFiling(oc, delivery) ==
  /\ pc = "filing" /\ flow = "speed_test"
  /\ outcome' = oc
  /\ LET r == file_fcc_complaint(oc)
         notify == r = "True" /\ ~ args.no_email /\ email_enabled(args.cfg)
         sent == IF notify THEN send_notification_email(args.cfg, delivery) ELSE "none"
     IN
       IF r \in {"True", "RuntimeError"} THEN
         /\ complaints' = save_complaint(complaints, now, loc.speed_test_id,
                                         speed_test_flow_status(r))
         /\ emails' = IF notify THEN 1 ELSE 0
         /\ loc' = [speed_test_id |-> loc.speed_test_id, notification |-> sent]
         /\ Return(IF notify THEN after_notification(speed_test_flow_exit(r), sent)
                   ELSE speed_test_flow_exit(r))
       ELSE
         /\ Raise(r)
         /\ UNCHANGED << complaints, emails, loc >>
  /\ UNCHANGED << speed_tests, now, flow, args, attempts, aggregated, c0, s0, day0,
                  db_open >>

(* main() --history and --complaints: listings only. *)
ShowHistory ==
  /\ Begin("history", << >>)
  /\ Return(0)
  /\ attempts' = 0 /\ aggregated' = FALSE /\ emails' = 0
  /\ UNCHANGED << speed_tests, complaints, loc >>

ShowComplaints ==
  /\ Begin("complaints", << >>)
  /\ Return(0)
  /\ attempts' = 0 /\ aggregated' = FALSE /\ emails' = 0
  /\ UNCHANGED << speed_tests, complaints, loc >>

(***************************************************************************)
(* main.py: daily report                                                   *)
(***************************************************************************)

(* main() --daily-report, with --report-date and --email-only.  Without   *)
(* --report-date the flow reads the clock (t_report) for its report date.  *)
(* Database defines neither get_failed_tests_for_date nor                  *)
(* was_complaint_filed_for_date, so the call at the top of the flow,       *)
(* before the emptiness check, raises AttributeError; the statements after *)
(* it, the notifications and the email-only mode among them, never run.    *)
RunDailyReport(date_arg, email_only, t_report) ==
  /\ Start("daily_report", [date |-> date_arg, email_only |-> email_only])
  /\ t_report \in datetime_now(now)
  /\ date_arg # NoDateArg => t_report = now
  /\ now' = t_report
  /\ attempts' = 0 /\ aggregated' = FALSE /\ emails' = 0
  /\ IF date_arg = InvalidDate
       THEN Return(1) /\ UNCHANGED loc
       ELSE Raise("AttributeError") /\ loc' = [report_date |-> report_date(date_arg, t_report)]
  /\ UNCHANGED << speed_tests, complaints >>

(***************************************************************************)
(* daily_complaint.py                                                      *)
(***************************************************************************)

(* failed_tests = [t for t in tests if t.download_mbps < threshold] *)
failed_tests(tests, cfg) ==
  SelectSeq(tests, LAMBDA t : float_lt(float_of_int(t.download_mbps),
                                       threshold_speed_mbps(cfg)))

(* What daily_complaint.main does once the automation has ended with oc:   *)
(* the status it saves ("none": nothing is saved), and its exit code or    *)
(* the exception that escapes.  The browser is launched inside the outer   *)
(* try only; the automation runs inside the inner try, whose handler       *)
(* catches Exception and saves; a KeyboardInterrupt passes both handlers.  *)
daily_complaint_status_always(oc) ==
  IF oc = "success" THEN "daily_filed" ELSE "daily_failed"

daily_complaint_status(oc) ==
  CASE oc = "success" -> "daily_filed"
    [] oc \in SubmissionErrors -> "daily_failed"
    [] oc \in {"launch_error", "interrupt"} -> "none"

daily_complaint_exit(oc) ==
  CASE oc = "success" -> 2
    [] oc \in SubmissionErrors -> 1
    [] oc = "launch_error" -> 1
    [] oc = "interrupt" -> NoExit

daily_complaint_exc(oc) == IF oc = "interrupt" THEN "KeyboardInterrupt" ELSE "none"

(* daily_complaint.main up to its return or to the start of the browser    *)
(* automation.  No lookup of an earlier filing is made.  Without --date    *)
(* the report date is read from the clock (t_report); the record of a dry  *)
(* run is stamped by a later datetime.now(), t_record.  The complaint text *)
(* is generated once the flow has decided to go on, outside every try      *)
(* block, and holds percentages of the advertised speed.                   *)
RunDailyComplaint(cfg, dry_run, date_arg, force, t_report, t_record) ==
  /\ Start("daily_complaint", [cfg |-> cfg, dry_run |-> dry_run, date |-> date_arg,
                               force |-> force])
  /\ t_report \in datetime_now(now)
  /\ date_arg # NoDateArg => t_report = now
  /\ t_record \in datetime_now(t_report)
  /\ now' = t_record
  /\ emails' = 0
  /\ UNCHANGED speed_tests
  /\ IF date_arg = InvalidDate THEN
       /\ t_record = t_report
       /\ Return(1)
       /\ attempts' = 0 /\ aggregated' = FALSE
       /\ UNCHANGED << complaints, loc >>
     ELSE LET tests == get_speed_tests_for_date(speed_tests, report_date(date_arg, t_report)) IN
       IF tests = << >> THEN
         /\ t_record = t_report
         /\ Return(0)
         /\ attempts' = 0 /\ aggregated' = FALSE
         /\ loc' = [report_date |-> report_date(date_arg, t_report)]
         /\ UNCHANGED complaints
       ELSE
         /\ aggregated' = TRUE
         /\ IF failed_tests(tests, cfg) = << >> /\ ~ force THEN
              /\ t_record = t_report
              /\ Return(0)
              /\ attempts' = 0
              /\ loc' = [report_date |-> report_date(date_arg, t_report)]
              /\ UNCHANGED complaints
            ELSE IF percent_of_advertised_raises(cfg) THEN
              /\ t_record = t_report
              /\ Raise("ZeroDivisionError")
              /\ attempts' = 0
              /\ loc' = [report_date |-> report_date(date_arg, t_report)]
              /\ UNCHANGED complaints
            ELSE IF dry_run THEN
              /\ Len(complaints) < MaxComplaints
              /\ Len(speed_tests) + Len(complaints) < MaxRows
              /\ complaints' = save_complaint(complaints, t_record, tests[1].id,
                                              "daily_dry_run")
              /\ Return(2)
              /\ attempts' = 0
              /\ loc' = [report_date |-> report_date(date_arg, t_report)]
            ELSE
              /\ Len(complaints) < MaxComplaints
              /\ Len(speed_tests) + Len(complaints) < MaxRows
              /\ t_record = t_report
              /\ loc' = [report_date |-> report_date(date_arg, t_report),
                         speed_test_id |-> tests[1].id]
              /\ pc' = "filing" /\ exit_code' = NoExit /\ exc' = "none"
              /\ attempts' = 1
              /\ UNCHANGED complaints

DailyComplaintFiling(oc) ==
  /\ pc = "filing" /\ flow = "daily_complaint"
  /\ outcome' = oc
  /\ complaints' = IF daily_complaint_status(oc) = "none" THEN complaints
                   ELSE save_complaint(complaints, now, loc.speed_test_id,
                                       daily_complaint_status(oc))
  /\ pc' = "done"
  /\ exit_code' = daily_complaint_exit(oc)
  /\ exc' = daily_complaint_exc(oc)
  /\ UNCHANGED << speed_tests, now, flow, args, loc, attempts, aggregated, emails,
                  c0, s0, day0, db_open >>

(***************************************************************************)
(* export_daily_data.py and the laptop client (file_complaint.py)          *)
(***************************************************************************)

ExportDailyData(date_arg, t_report) ==
  /\ Start("export", [date |-> date_arg])
  /\ t_report \in datetime_now(now)
  /\ date_arg # NoDateArg => t_report = now
  /\ now' = t_report
  /\ Return(IF date_arg = InvalidDate THEN 1 ELSE 0)
  /\ attempts' = 0 /\ aggregated' = FALSE /\ emails' = 0
  /\ UNCHANGED << speed_tests, complaints, loc >>

(* Exit code of the laptop client's main once file_complaint_with_browser  *)
(* has ended with oc: "return 0 if success else 1", and 1 from both        *)
(* handlers (KeyboardInterrupt, Exception).                                *)
laptop_exit(oc) == IF oc = "success" THEN 0 ELSE 1

MinFailures == {0, 1}

(* The laptop client's main: the day's tests come from export_daily_data   *)
(* run on the capture host (fetch_ok: the ssh call succeeded), which reads *)
(* its clock (t_report) for the report date when --date is absent.  The    *)
(* client generates its complaint text, with percentages of the advertised *)
(* speed, before the try block around the browser automation.              *)
RunLaptopClient(cfg, date_arg, dry_run, min_failures, fetch_ok, t_report) ==
  /\ Start("laptop", [cfg |-> cfg, dry_run |-> dry_run, date |-> date_arg,
                      min_failures |-> min_failures, fetch_ok |-> fetch_ok])
  /\ t_report \in datetime_now(now)
  /\ (date_arg # NoDateArg \/ ~ fetch_ok) => t_report = now
  /\ now' = t_report
  /\ emails' = 0
  /\ UNCHANGED << speed_tests, complaints >>
  /\ IF ~ fetch_ok \/ date_arg = InvalidDate THEN
       /\ Return(1)
       /\ attempts' = 0 /\ aggregated' = FALSE
       /\ UNCHANGED loc
     ELSE LET tests == get_speed_tests_for_date(speed_tests, report_date(date_arg, t_report)) IN
       /\ loc' = [report_date |-> report_date(date_arg, t_report)]
       /\ IF tests = << >> THEN
            /\ Return(0)
            /\ attempts' = 0 /\ aggregated' = FALSE
          ELSE
            /\ aggregated' = TRUE
            /\ IF Len(failed_tests(tests, cfg)) < min_failures THEN
                 /\ Return(0)
                 /\ attempts' = 0
               ELSE IF percent_of_advertised_raises(cfg) THEN
                 /\ Raise("ZeroDivisionError")
                 /\ attempts' = 0
               ELSE IF dry_run THEN
                 /\ Return(0)
                 /\ attempts' = 0
               ELSE
                 /\ pc' = "filing" /\ exit_code' = NoExit /\ exc' = "none"
                 /\ attempts' = 1

LaptopFiling(oc) ==
  /\ pc = "filing" /\ flow = "laptop"
  /\ outcome' = oc
  /\ Return(laptop_exit(oc))
  /\ UNCHANGED << speed_tests, complaints, now, flow, args, loc, attempts, aggregated,
                  emails, c0, s0, day0, db_open >>

(***************************************************************************)
(* Start-up of the entry points when a required setting is missing         *)
(***************************************************************************)

(* The modules that call load_config. *)
EntryPoints == {"main", "daily_complaint", "export_daily_data", "save_session", "web"}

startup_database_first(ep) ==
  IF ep = "save_session" THEN << "load_config" >> ELSE << "Database", "load_config" >>

(* What an entry point does first, in order: every one calls load_config,  *)
(* and all but save_session then construct Database(config.db_path).       *)
startup(ep) ==
  IF ep = "save_session" THEN << "load_config" >> ELSE << "load_config", "Database" >>

(* The steps that have run when load_config raises. *)
steps_before_load_config(steps) ==
  SubSeq(steps, 1, (CHOOSE i \in 1..Len(steps) : steps[i] = "load_config") - 1)

(* get_required raises ValueError; the main functions catch it and return  *)
(* 1, the dashboard module calls load_config at import and lets it escape. *)
config_error_caught(ep) == ep # "web"

MissingSetting(ep) ==
  /\ pc = "idle"
  /\ flow' = "startup"
  /\ args' = [entry_point |-> ep]
  /\ c0' = complaints /\ s0' = speed_tests /\ day0' = now.day
  /\ outcome' = "none"
  /\ db_open' = (\E i \in 1..Len(steps_before_load_config(startup(ep))) :
                   steps_before_load_config(startup(ep))[i] = "Database")
  /\ IF config_error_caught(ep) THEN Return(1) ELSE Raise("ValueError")
  /\ attempts' = 0 /\ aggregated' = FALSE /\ emails' = 0
  /\ UNCHANGED << speed_tests, complaints, now, loc >>

(***************************************************************************)
(* A caller asking the store whether a complaint was filed for a day       *)
(***************************************************************************)

LookupDailyComplaint(day) ==
  /\ Begin("lookup", [date |-> day])
  /\ loc' = [found |-> get_daily_complaint_for_date(complaints, day)]
  /\ Return(0)
  /\ attempts' = 0 /\ aggregated' = FALSE /\ emails' = 0
  /\ UNCHANGED << speed_tests, complaints >>

Next ==
  \/ Tick
  \/ Exit
  \/ pc = "idle" /\
     \E cfg \in Configs, dry_run \in BOOLEAN, no_email \in BOOLEAN, test_only \in BOOLEAN,
        m \in Measurements, download \in Downloads, t_sample \in datetime_now(now) :
     \E t_record \in IF dry_run /\ ~ test_only THEN datetime_now(t_sample) ELSE {t_sample} :
       (m # "ok" => download = 650 /\ ~ dry_run /\ ~ no_email /\ ~ test_only) /\
       RunSpeedTestFlow(cfg, dry_run, no_email, test_only, m, download, t_sample, t_record)
  \/ pc = "filing" /\ \E oc \in Outcomes, delivery \in Deliveries :
       (oc # "success" => delivery = "sent") /\ SpeedTestFiling(oc, delivery)
  \/ ShowHistory
  \/ ShowComplaints
  \/ pc = "idle" /\
     \E date_arg \in DateArgs, email_only \in BOOLEAN :
     \E t_report \in IF date_arg = NoDateArg THEN datetime_now(now) ELSE {now} :
       RunDailyReport(date_arg, email_only, t_report)
  \/ pc = "idle" /\
     \E cfg \in Configs, dry_run \in BOOLEAN, date_arg \in DateArgs, force \in BOOLEAN :
     \E t_report \in IF date_arg = NoDateArg THEN datetime_now(now) ELSE {now} :
     \E t_record \in IF dry_run THEN datetime_now(t_report) ELSE {t_report} :
       RunDailyComplaint(cfg, dry_run, date_arg, force, t_report, t_record)
  \/ pc = "filing" /\ \E oc \in Outcomes : DailyComplaintFiling(oc)
  \/ pc = "idle" /\
     \E date_arg \in DateArgs :
     \E t_report \in IF date_arg = NoDateArg THEN datetime_now(now) ELSE {now} :
       ExportDailyData(date_arg, t_report)
  \/ pc = "idle" /\
     \E cfg \in Configs, date_arg \in DateArgs, dry_run \in BOOLEAN,
        min_failures \in MinFailures, fetch_ok \in BOOLEAN :
     \E t_report \in IF date_arg = NoDateArg /\ fetch_ok THEN datetime_now(now) ELSE {now} :
       (~ fetch_ok => ~ dry_run /\ min_failures = 1 /\ date_arg = NoDateArg) /\
       RunLaptopClient(cfg, date_arg, dry_run, min_failures, fetch_ok, t_report)
  \/ pc = "filing" /\ \E oc \in Outcomes : LaptopFiling(oc)
  \/ pc = "idle" /\ \E day \in Days : LookupDailyComplaint(day)
  \/ pc = "idle" /\ \E ep \in EntryPoints : MissingSetting(ep)

Spec == Init /\ [][Next]_vars

(***************************************************************************)
(* get_daily_complaint_for_date on an arbitrary complaints table           *)
(***************************************************************************)

AllStatuses ==
  {"dry_run", "filed", "failed", "emailed", "daily_dry_run", "daily_filed", "daily_failed"}

(* The store holds any complaints table of at most MaxComplaints rows,     *)
(* with any status and any timestamp in each row.                          *)
InitLookup ==
  /\ speed_tests = << >>
  /\ \E n \in 0..MaxComplaints :
       \E ts \in [1..n -> Instants], st \in [1..n -> AllStatuses] :
         complaints = [i \in 1..n |-> [id |-> i, timestamp |-> ts[i],
                                       speed_test_id |-> 1, status |-> st[i]]]
  /\ now = [day |-> MaxDay, tod |-> MaxTod]
  /\ NoProcess

NextLookup ==
  \/ \E day \in Days : LookupDailyComplaint(day)
  \/ Exit

SpecLookup == InitLookup /\ [][NextLookup]_vars

(***************************************************************************)
(* get_speed_tests_for_date on an arbitrary speed_tests table              *)
(***************************************************************************)

(* The store holds any speed_tests table of at most MaxSamples rows; the   *)
(* timestamps need not follow the insertion order (the wall clock is local *)
(* time and can be set back).                                              *)
InitQuery ==
  /\ \E n \in 0..MaxSamples :
       \E ts \in [1..n -> Instants] :
         speed_tests = [i \in 1..n |-> [id |-> i, timestamp |-> ts[i],
                                        download_mbps |-> 650]]
  /\ complaints = << >>
  /\ now = [day |-> MaxDay, tod |-> MaxTod]
  /\ NoProcess

QuerySpeedTestsForDate(date) ==
  /\ Begin("query", [date |-> date])
  /\ loc' = [tests |-> get_speed_tests_for_date(speed_tests, date)]
  /\ Return(0)
  /\ attempts' = 0 /\ aggregated' = FALSE /\ emails' = 0
  /\ UNCHANGED << speed_tests, complaints >>

NextQuery ==
  \/ \E date \in Instants : QuerySpeedTestsForDate(date)
  \/ Exit

SpecQuery == InitQuery /\ [][NextQuery]_vars

(***************************************************************************)
(* Classification and statistics of a day's samples                        *)
(***************************************************************************)

(* format(x, ".<digits>f") of a finite x, as the integer its digits spell: *)
(* the exact value of x times 10^digits, rounded ties to even.             *)
format_fixed_truncate(x, digits) ==
  (IF x.neg THEN -1 ELSE 1) *
  big_to_int(IF x.e >= 0
             THEN big_shl(big_mul_small(x.m, Pow10(digits), 0), x.e)
             ELSE big_shr(big_mul_small(x.m, Pow10(digits), 0), -x.e).q)

format_fixed(x, digits) ==
  (IF x.neg THEN -1 ELSE 1) *
  big_to_int(IF x.e >= 0
             THEN big_shl(big_mul_small(x.m, Pow10(digits), 0), x.e)
             ELSE round_half_even(big_mul_small(x.m, Pow10(digits), 0), -x.e, FALSE))

RECURSIVE sum(_)
sum(xs) == IF xs = << >> THEN 0 ELSE Head(xs) + sum(Tail(xs))

(* statistics.mean: the exact sum divided by the count, rounded once. *)
mean(xs) == float_of_ratio(sum(xs), Len(xs))

min(xs) == CHOOSE x \in { xs[i] : i \in 1..Len(xs) } : \A i \in 1..Len(xs) : x <= xs[i]

max(xs) == CHOOSE x \in { xs[i] : i \in 1..Len(xs) } : \A i \in 1..Len(xs) : x >= xs[i]

failure_rate_no_division(failed_count, total_count) == float_of_int(failed_count * 100)

(* (failed_count / total_count) * 100 if total_count > 0 else 0 *)
failure_rate(failed_count, total_count) ==
  IF total_count > 0
  THEN float_mul(float_of_ratio(failed_count, total_count), float_of_int(100))
  ELSE float_of_int(0)

(* The places that classify one sample against the threshold of a Config.  *)
daily_text_status(download_mbps, cfg) ==
  IF float_lt(float_of_int(download_mbps), threshold_speed_mbps(cfg))
  THEN "FAILED" ELSE "OK"

format_all_tests_status(download_mbps, cfg) ==
  IF float_lt(float_of_int(download_mbps), threshold_speed_mbps(cfg))
  THEN "FAIL" ELSE "OK"

test_only_above(download_mbps, cfg) ==
  float_ge(float_of_int(download_mbps), threshold_speed_mbps(cfg))

history_status(download_mbps, cfg) ==
  IF float_ge(float_of_int(download_mbps), threshold_speed_mbps(cfg))
  THEN "OK" ELSE "LOW"

(* export_daily_data hands the laptop client the samples and the threshold *)
(* it derived from its Config; json.dumps writes the shortest text that    *)
(* reads back as the same float, so the client compares against the very   *)
(* value the exporter computed.                                            *)
export_config(cfg) == [threshold_speed_mbps |-> threshold_speed_mbps(cfg)]

laptop_failed(download_mbps, data_config) ==
  float_lt(float_of_int(download_mbps), data_config.threshold_speed_mbps)

(* The figures generate_daily_complaint_text puts into its text: counts,   *)
(* the failed subset, the failure rate (exact and as rendered with one     *)
(* decimal), the mean download (rendered with two decimals), the extremes  *)
(* and the tag of every sample.                                            *)
daily_complaint_figures(cfg, tests, downloads, failed, rate) ==
  [ total_count |-> Len(tests),
    failed_downloads |-> [i \in 1..Len(failed) |-> failed[i].download_mbps],
    failure_rate |-> rate,
    failure_rate_1f |-> format_fixed(rate, 1),
    avg_download_2f |-> format_fixed(mean(downloads), 2),
    min_download |-> min(downloads),
    max_download |-> max(downloads),
    test_details |-> [i \in 1..Len(tests) |->
                       daily_text_status(tests[i].download_mbps, cfg)] ]

generate_daily_complaint_text(cfg, tests) ==
  daily_complaint_figures(cfg, tests,
                          [i \in 1..Len(tests) |-> tests[i].download_mbps],
                          failed_tests(tests, cfg),
                          failure_rate(Len(failed_tests(tests, cfg)), Len(tests)))

(* Download throughputs of the samples a day may hold. *)
ReportDownloads == {650, 680, 700, 720}

(* The configurations the reports are rendered under: those above whose    *)
(* advertised speed the text generator can divide by (the NaN one among    *)
(* them; the division by 0.0 is part of the flows that call the            *)
(* generator), and ADVERTISED_SPEED_MBPS = 200 with THRESHOLD_PERCENT = 55. *)
ReportConfigs ==
  { cfg \in Configs : ~ percent_of_advertised_raises(cfg) }
    \cup { [advertised |-> float_of_int(200), percent |-> 55, smtp_server |-> Unset,
            smtp_port |-> 587, notification_email |-> Unset] }

(* The store holds any sequence of at most MaxSamples samples of one day. *)
InitReport ==
  /\ \E n \in 0..MaxSamples :
       \E dl \in [1..n -> ReportDownloads \cup {110}] :
         speed_tests = [i \in 1..n |-> [id |-> i, timestamp |-> [day |-> 1, tod |-> 0],
                                        download_mbps |-> dl[i]]]
  /\ complaints = << >>
  /\ now = [day |-> 1, tod |-> 0]
  /\ NoProcess

(* The text generator applied to the day's samples (its callers pass a     *)
(* non-empty list).                                                        *)
GenerateDailyComplaintText(cfg) ==
  /\ speed_tests # << >>
  /\ Begin("daily_text", [cfg |-> cfg])
  /\ loc' = generate_daily_complaint_text(cfg, get_speed_tests_for_date(speed_tests, now))
  /\ Return(0)
  /\ attempts' = 0 /\ aggregated' = TRUE /\ emails' = 0
  /\ UNCHANGED << speed_tests, complaints >>

(* Every classifying place applied to every sample of the day. *)
ClassifySamples(cfg) ==
  /\ Begin("classify", [cfg |-> cfg])
  /\ loc' = [verdicts |-> [i \in 1..Len(speed_tests) |->
               LET d == speed_tests[i].download_mbps IN
                 [ daily_text |-> daily_text_status(d, cfg),
                   format_all_tests |-> format_all_tests_status(d, cfg),
                   single_test_files |-> below_threshold(d, cfg),
                   test_only_above |-> test_only_above(d, cfg),
                   history |-> history_status(d, cfg),
                   laptop_failed |-> laptop_failed(d, export_config(cfg)) ]]]
  /\ Return(0)
  /\ attempts' = 0 /\ aggregated' = FALSE /\ emails' = 0
  /\ UNCHANGED << speed_tests, complaints >>

NextReport ==
  \/ \E cfg \in ReportConfigs : GenerateDailyComplaintText(cfg)
  \/ \E cfg \in ReportConfigs : ClassifySamples(cfg)
  \/ Exit

SpecReport == InitReport /\ [][NextReport]_vars

(***************************************************************************)
(* Properties                                                              *)
(***************************************************************************)

IsPrefix(a, b) == Len(a) <= Len(b) /\ SubSeq(b, 1, Len(a)) = a

(* The flows of the src package, which own the store. *)
StoreFlows == {"speed_test", "daily_report", "daily_complaint"}

DailyFlows == {"daily_report", "daily_complaint"}

SuccessRows(table, day) ==
  { i \in 1..Len(table) : /\ table[i].status \in {"filed", "daily_filed"}
                          /\ table[i].timestamp.day = day }

(* C1: the complaints table never holds two records with status 'filed'    *)
(* or 'daily_filed' whose timestamps fall on the same calendar day.        *)
C1_OneSuccessPerDay ==
  \A day \in Days : Cardinality(SuccessRows(complaints, day)) <= 1

(* C2: a run of daily_complaint.main with a valid date, on a day and for a *)
(* report date for which an earlier daily run has left a 'daily_filed'     *)
(* record, makes no filing attempt, appends no record and returns 0.       *)
C2_SecondDailyRunSkips ==
  ( /\ pc \in {"filing", "done"}
    /\ flow = "daily_complaint"
    /\ args.date # InvalidDate
    /\ \E i \in SuccessRows(c0, day0) : c0[i].status = "daily_filed"
    /\ \E i \in SuccessRows(c0, loc.report_date.day) : c0[i].status = "daily_filed" )
  => /\ attempts = 0
     /\ complaints = c0
     /\ pc = "done" => ( exit_code = 0 /\ exc = "none" )

(* C3: the lookup answers None exactly when no record dated d has status   *)
(* 'filed' or 'daily_filed' (so records in any other status never make it  *)
(* answer), and otherwise answers a row of the table dated d, with one of  *)
(* these two statuses, that no other such row is newer than.               *)
C3_LookupOnlySuccess ==
  ( pc = "done" /\ flow = "lookup" )
  => LET succ == SuccessRows(complaints, args.date) IN
       /\ (succ = {}) <=> (loc.found = << >>)
       /\ loc.found # << >> =>
            \E i \in succ :
              /\ loc.found = << complaints[i] >>
              /\ \A j \in succ :
                   ~ ts_before(complaints[i].timestamp, complaints[j].timestamp)

(* C3 witness: a dry run newer than a real filing of the same day; the     *)
(* lookup answers the real filing.                                         *)
C3_Witness ==
  /\ pc = "done" /\ flow = "lookup"
  /\ \E i, j \in 1..Len(complaints) :
       /\ complaints[i].status = "dry_run"
       /\ complaints[j].status = "filed"
       /\ complaints[i].timestamp.day = args.date
       /\ complaints[j].timestamp.day = args.date
       /\ ts_before(complaints[j].timestamp, complaints[i].timestamp)
       /\ loc.found = << complaints[j] >>

(* C4: an invocation of a store-owning flow that started a real filing     *)
(* attempt which ended without a user interrupt has appended exactly one   *)
(* record.                                                                 *)
C4_OneRecordPerAttempt ==
  ( pc = "done" /\ flow \in StoreFlows /\ attempts = 1 /\ outcome # "interrupt" )
  => Len(complaints) = Len(c0) + 1

(* C5: when the automation ends with a submission error, the flow returns  *)
(* 1, no exception escapes, and exactly one record has been appended, with *)
(* status 'failed' (single-test flow) or 'daily_failed'                    *)
(* (daily_complaint.main).                                                 *)
C5_SubmissionErrorRecorded ==
  ( pc = "done" /\ flow \in StoreFlows /\ outcome \in SubmissionErrors )
  => /\ exc = "none"
     /\ exit_code = 1
     /\ Len(complaints) = Len(c0) + 1
     /\ IsPrefix(c0, complaints)
     /\ complaints[Len(complaints)].status =
          (IF flow = "daily_complaint" THEN "daily_failed" ELSE "failed")

C5_Witness ==
  /\ pc = "done" /\ flow = "speed_test" /\ outcome = "challenge_timeout"
  /\ exit_code = 1
  /\ complaints[Len(complaints)].status = "failed"

(* C6: a record with a filing status is appended only by the step in which *)
(* the submission ends (its outcome is part of that step); while the       *)
(* attempt is in progress the table is as the invocation found it, and it  *)
(* stays so when the attempt is aborted by an escaping exception.          *)
C6_Step ==
  /\ pc = "filing" => complaints = c0
  /\ ( /\ Len(complaints') > Len(complaints)
       /\ complaints'[Len(complaints')].status \in
            {"filed", "daily_filed", "failed", "daily_failed"} )
     => ( pc = "filing" /\ pc' = "done" /\ outcome' \in Outcomes )
  /\ ( pc' = "done" /\ attempts' = 1 /\ exc' # "none" ) => complaints' = c0'

C6_SavedAfterOutcome == [][C6_Step]_vars

C6_Witness ==
  /\ pc = "done" /\ flow = "daily_complaint" /\ outcome = "interrupt"
  /\ exc = "KeyboardInterrupt" /\ attempts = 1 /\ complaints = c0

(* C7: a user interrupt during the filing attempt never escapes main(): the *)
(* invocation ends with an exit code.                                      *)
C7_InterruptCaught ==
  ( pc = "done" /\ outcome = "interrupt" ) => ( exc = "none" /\ exit_code \in {0, 1, 2} )

(* C8: every step leaves the rows already in speed_tests and complaints as *)
(* they were: both tables only grow at the end.                            *)
C8_AppendOnly ==
  [][ IsPrefix(speed_tests, speed_tests') /\ IsPrefix(complaints, complaints') ]_vars

(* C8 witness: the single-test flow filed a complaint for a sample of 700  *)
(* Mbps, which it does only under the 72% threshold; a later run under 70% *)
(* measures 700 Mbps again, saves it as a second sample and needs no       *)
(* action; the earlier sample and the earlier record are as they were.     *)
C8_Witness ==
  /\ pc = "done" /\ flow = "speed_test" /\ exit_code = 0 /\ ~ args.test_only
  /\ args.cfg.advertised = float_of_int(1000) /\ args.cfg.percent = 70
  /\ Len(s0) = 1 /\ Len(speed_tests) = 2 /\ speed_tests[1] = s0[1]
  /\ speed_tests[1].download_mbps = 700 /\ speed_tests[2].download_mbps = 700
  /\ Len(c0) = 1 /\ complaints = c0
  /\ complaints[1].status = "filed" /\ complaints[1].speed_test_id = speed_tests[1].id

(* C9: a filing flow whose attempt succeeded returns 2, and one whose       *)
(* attempt ended in an error does not return 2.                            *)
C9_ExitCodes ==
  ( pc = "done" /\ flow \in StoreFlows \cup {"laptop"} )
  => /\ outcome = "success" => exit_code = 2
     /\ outcome \in SubmissionErrors \cup {"launch_error"} => exit_code # 2

(* C10: a daily flow (or the laptop client, once its fetch succeeded) run  *)
(* with a valid date for which the store holds no samples returns 0        *)
(* without aggregating, without a filing attempt and without a new record. *)
C10_EmptyDayNoReport ==
  ( /\ pc = "done"
    /\ flow \in DailyFlows \cup {"laptop"}
    /\ args.date # InvalidDate
    /\ flow = "laptop" => args.fetch_ok
    /\ get_speed_tests_for_date(speed_tests,
                                 [day |-> loc.report_date.day, tod |-> 0]) = << >> )
  => ( exit_code = 0 /\ exc = "none" /\ ~ aggregated /\ attempts = 0 /\ complaints = c0 )

(* C20: an entry point started with a required setting missing ends with  *)
(* exit code 1 or an escaping ValueError, has constructed no Database, and *)
(* leaves both tables as it found them.                                    *)
C20_ConfigErrorBeforeStore ==
  ( pc = "done" /\ flow = "startup" )
  => /\ exit_code = 1 \/ exc = "ValueError"
     /\ ~ db_open
     /\ speed_tests = s0 /\ complaints = c0

C20_Witness ==
  /\ pc = "done" /\ flow = "startup" /\ args.entry_point = "web"
  /\ exc = "ValueError" /\ ~ db_open /\ Len(speed_tests) = 1

(* C13: the threshold is derived from the Config of the running invocation *)
(* (advertised times percent / 100, in float arithmetic) and held neither  *)
(* in a Config nor in a row of the store; with advertised 1000 and percent *)
(* 70 it is exactly 700, and the single-test flow treats a sample as below *)
(* the threshold exactly when its download is less than 700.  Under every  *)
(* Config the flow goes on to a complaint exactly when the download is not *)
(* at or above the float derived at that moment.                           *)
C13_ThresholdDerived ==
  /\ \A i \in 1..Len(speed_tests) :
       DOMAIN speed_tests[i] = {"id", "timestamp", "download_mbps"}
  /\ \A i \in 1..Len(complaints) :
       DOMAIN complaints[i] = {"id", "timestamp", "speed_test_id", "status"}
  /\ ( /\ pc \in {"filing", "done"} /\ flow = "speed_test"
       /\ Len(speed_tests) = Len(s0) + 1 /\ ~ args.test_only )
     => /\ DOMAIN args.cfg = {"advertised", "percent", "smtp_server", "smtp_port",
                               "notification_email"}
        /\ ( args.cfg.advertised = float_of_int(1000) /\ args.cfg.percent = 70 )
           => /\ threshold_speed_mbps(args.cfg) = float_of_int(700)
              /\ aggregated <=> speed_tests[Len(speed_tests)].download_mbps < 700
        /\ aggregated <=>
             ~ float_ge(float_of_int(speed_tests[Len(speed_tests)].download_mbps),
                        float_mul(args.cfg.advertised,
                                  float_of_ratio(args.cfg.percent, 100)))

(* C13 witness: under 1000 / 70 a sample of exactly 700 needs no action. *)
C13_Witness ==
  /\ pc = "done" /\ flow = "speed_test" /\ ~ args.test_only
  /\ args.cfg.advertised = float_of_int(1000) /\ args.cfg.percent = 70
  /\ Len(speed_tests) = Len(s0) + 1
  /\ speed_tests[Len(speed_tests)].download_mbps = 700
  /\ exit_code = 0 /\ ~ aggregated

StrictlyIncreasingIds(table) ==
  \A i, j \in 1..Len(table) : i < j => table[i].id < table[j].id

(* C17: in both tables a row saved later has a larger id than every row    *)
(* saved earlier, and the id save_speed_test returned to the single-test   *)
(* flow is the id of the row it appended, which holds the sample's fields  *)
(* and is newer than every id the table held before.                       *)
C17_IdsIncrease ==
  /\ StrictlyIncreasingIds(speed_tests)
  /\ StrictlyIncreasingIds(complaints)
  /\ ( pc \in {"filing", "done"} /\ flow = "speed_test" /\ Len(speed_tests) > Len(s0) )
     => /\ Len(speed_tests) = Len(s0) + 1
        /\ loc.speed_test_id = speed_tests[Len(speed_tests)].id
        /\ ~ ts_before(now, speed_tests[Len(speed_tests)].timestamp)
        /\ \A i \in 1..Len(s0) : s0[i].id < loc.speed_test_id
  /\ ( pc = "done" /\ Len(complaints) > Len(c0) )
     => /\ Len(complaints) = Len(c0) + 1
        /\ \A i \in 1..Len(c0) : c0[i].id < complaints[Len(complaints)].id

(* C17 witness: a second run of the single-test flow saved its sample into *)
(* a table that held one row; the returned id is 2, the new row holds the  *)
(* sample's fields, and the record of the dry run refers to it.            *)
C17_Witness ==
  /\ pc = "done" /\ flow = "speed_test" /\ args.dry_run
  /\ Len(s0) = 1 /\ s0[1].id = 1 /\ Len(speed_tests) = 2
  /\ speed_tests[1] = s0[1] /\ speed_tests[2].id = 2 /\ loc.speed_test_id = 2
  /\ speed_tests[2].download_mbps = 650
  /\ Len(c0) = 0 /\ Len(complaints) = 1
  /\ complaints[1].id = 1 /\ complaints[1].speed_test_id = 2

MeasurementFailures == {"nonzero_exit", "timeout", "unparsable", "missing_field"}

(* C19: when the measurement fails, run_speed_test raises RuntimeError, the *)
(* single-test flow returns 1 and both tables are as the run found them.   *)
C19_MeasurementFailure ==
  ( pc = "done" /\ flow = "speed_test" /\ args.measurement \in MeasurementFailures )
  => /\ run_speed_test(args.measurement) = "RuntimeError"
     /\ exit_code = 1 /\ exc = "none"
     /\ speed_tests = s0 /\ complaints = c0
     /\ attempts = 0

C19_Witness ==
  /\ pc = "done" /\ flow = "speed_test" /\ args.measurement = "missing_field"
  /\ exit_code = 1 /\ Len(speed_tests) = 1 /\ speed_tests = s0

(* C18: the query answers exactly the rows whose timestamp falls on the   *)
(* calendar day of d, each once, in ascending timestamp order, whatever    *)
(* time of day d carries.                                                  *)
C18_CalendarDateQuery ==
  ( pc = "done" /\ flow = "query" )
  => LET r == loc.tests
         on_day == { i \in 1..Len(speed_tests) :
                       speed_tests[i].timestamp.day = args.date.day }
     IN /\ Len(r) = Cardinality(on_day)
        /\ \A i \in on_day : Cardinality({ k \in 1..Len(r) : r[k] = speed_tests[i] }) = 1
        /\ \A k \in 1..Len(r) : \E i \in on_day : r[k] = speed_tests[i]
        /\ \A k, l \in 1..Len(r) :
             k < l => ~ ts_before(r[l].timestamp, r[k].timestamp)

(* C18 witness: d is midnight of day 2; a sample of the evening before     *)
(* (less than 24 hours earlier) is left out, and the two samples of day 2, *)
(* inserted latest first, are answered earliest first.                     *)
C18_Witness ==
  /\ pc = "done" /\ flow = "query" /\ args.date = [day |-> 2, tod |-> 0]
  /\ Len(speed_tests) = 3
  /\ speed_tests[1].timestamp = [day |-> 1, tod |-> 1]
  /\ speed_tests[2].timestamp = [day |-> 2, tod |-> 1]
  /\ speed_tests[3].timestamp = [day |-> 2, tod |-> 0]
  /\ loc.tests = << speed_tests[3], speed_tests[2] >>

(* C11: every classifying place calls a sample failed exactly when its     *)
(* download is strictly less than the threshold speed of the Config, so    *)
(* all places agree and a sample equal to the threshold passes everywhere. *)
C11_StrictClassification ==
  ( pc = "done" /\ flow = "classify" )
  => \A i \in 1..Len(speed_tests) :
       LET d == speed_tests[i].download_mbps
           v == loc.verdicts[i]
           failed == float_lt(float_of_int(d), threshold_speed_mbps(args.cfg))
       IN /\ v.daily_text = (IF failed THEN "FAILED" ELSE "OK")
          /\ v.format_all_tests = (IF failed THEN "FAIL" ELSE "OK")
          /\ v.single_test_files = failed
          /\ v.test_only_above = ~ failed
          /\ v.history = (IF failed THEN "LOW" ELSE "OK")
          /\ v.laptop_failed = failed
          /\ float_eq(float_of_int(d), threshold_speed_mbps(args.cfg))
               => /\ v.history = "OK" /\ v.daily_text = "OK"
                  /\ v.format_all_tests = "OK" /\ v.test_only_above
                  /\ ~ v.single_test_files /\ ~ v.laptop_failed

(* C12: for a non-empty sample sequence the failure rate lies in [0, 100], *)
(* exact and as rendered, and the failed subset is no larger than the      *)
(* sequence.                                                               *)
C12_FailureRateRange ==
  ( pc = "done" /\ flow = "daily_text" )
  => /\ loc.total_count = Len(speed_tests) /\ loc.total_count > 0
     /\ Len(loc.failed_downloads) <= loc.total_count
     /\ float_ge(loc.failure_rate, float_of_int(0))
     /\ float_le(loc.failure_rate, float_of_int(100))
     /\ loc.failure_rate_1f \in 0..1000

(* C12 witness: two of three samples fail. *)
C12_Witness ==
  /\ pc = "done" /\ flow = "daily_text"
  /\ loc.total_count = 3 /\ Len(loc.failed_downloads) = 2
  /\ loc.failure_rate_1f = 667

(* C14: for downloads [650, 720, 680] against threshold 700 the failed     *)
(* subset is [650, 680], the failure rate is rendered 66.7 and the mean    *)
(* download 683.33.                                                        *)
C14_WorkedExample ==
  ( /\ pc = "done" /\ flow = "daily_text"
    /\ args.cfg.advertised = float_of_int(1000) /\ args.cfg.percent = 70
    /\ [i \in 1..Len(speed_tests) |-> speed_tests[i].download_mbps] = << 650, 720, 680 >> )
  => /\ loc.failed_downloads = << 650, 680 >>
     /\ loc.failure_rate_1f = 667
     /\ loc.avg_download_2f = 68333

C14_Witness ==
  /\ pc = "done" /\ flow = "daily_text" /\ args.cfg.percent = 70
  /\ Len(speed_tests) = 3
  /\ speed_tests[1].download_mbps = 650
  /\ speed_tests[2].download_mbps = 720
  /\ speed_tests[3].download_mbps = 680
  /\ loc.avg_download_2f = 68333 /\ loc.min_download = 650 /\ loc.max_download = 720

(* C16: every report surface run for a day that holds samples ends having *)
(* computed that day's statistics (counts, failure rate, mean and extremes *)
(* of the same samples under the same Config), so that all surfaces report *)
(* the same figures.                                                       *)
C16_SameStatistics ==
  ( /\ pc = "done"
    /\ flow \in DailyFlows \cup {"laptop"}
    /\ args.date # InvalidDate
    /\ flow = "laptop" => args.fetch_ok
    /\ get_speed_tests_for_date(speed_tests,
                                 [day |-> loc.report_date.day, tod |-> 0]) # << >> )
  => ( exc = "none" /\ aggregated )

(***************************************************************************)
(* config.load_config on an arbitrary environment                          *)
(***************************************************************************)

(* The keys read with get_required, in the order of the Config(...) call. *)
RequiredKeys ==
  << "FCC_USERNAME", "FCC_PASSWORD", "ISP_NAME", "ISP_ACCOUNT_NUMBER",
     "SERVICE_ADDRESS", "PHONE_NUMBER", "EMAIL", "FIRST_NAME", "LAST_NAME" >>

RequiredKeySet == { RequiredKeys[i] : i \in 1..Len(RequiredKeys) }

getenv(env, key, default) == IF env[key] = Unset THEN default ELSE env[key][1]

DigitChars == {"0", "1", "2", "3", "4", "5", "6", "7", "8", "9"}

digit_value(c) ==
  CASE c = "0" -> 0 [] c = "1" -> 1 [] c = "2" -> 2 [] c = "3" -> 3 [] c = "4" -> 4
    [] c = "5" -> 5 [] c = "6" -> 6 [] c = "7" -> 7 [] c = "8" -> 8 [] c = "9" -> 9

RECURSIVE digits_value(_)
digits_value(chars) ==
  IF chars = << >> THEN 0
  ELSE 10 * digits_value(SubSeq(chars, 1, Len(chars) - 1)) + digit_value(chars[Len(chars)])

(* Text conversions.  Both int(text) and float(text) ignore surrounding    *)
(* whitespace, take one optional sign and allow single underscores between *)
(* digits; the texts considered are ASCII.  The whitespace they ignore is  *)
(* the space and the characters 9 to 13: tab, line feed, vertical tab      *)
(* (which stands in the set below as the character itself), form feed and  *)
(* carriage return.                                                        *)
Blanks == {" ", "\t", "\n", "", "\f", "\r"}

RECURSIVE strip(_)
strip(chars) ==
  IF chars # << >> /\ Head(chars) \in Blanks THEN strip(Tail(chars))
  ELSE IF chars # << >> /\ chars[Len(chars)] \in Blanks
       THEN strip(SubSeq(chars, 1, Len(chars) - 1))
  ELSE chars

is_digits(s) ==
  /\ s # << >> /\ s[1] \in DigitChars /\ s[Len(s)] \in DigitChars
  /\ \A i \in 1..Len(s) : s[i] \in DigitChars \cup {"_"}
  /\ \A i \in 1..(Len(s) - 1) : ~ (s[i] = "_" /\ s[i + 1] = "_")

digits_of(s) == SelectSeq(s, LAMBDA c : c \in DigitChars)

unsigned(s) == IF s # << >> /\ s[1] \in {"+", "-"} THEN Tail(s) ELSE s

negative(s) == s # << >> /\ s[1] = "-"

lower(c) ==
  CASE c = "A" -> "a" [] c = "E" -> "e" [] c = "F" -> "f" [] c = "I" -> "i"
    [] c = "N" -> "n" [] c = "T" -> "t" [] c = "Y" -> "y" [] OTHER -> c

(* Index of the first character of s that lies in set, 0 if there is none. *)
first_index(s, set) ==
  IF \E i \in 1..Len(s) : s[i] \in set
  THEN CHOOSE i \in 1..Len(s) : s[i] \in set /\ \A j \in 1..(i - 1) : s[j] \notin set
  ELSE 0

RECURSIVE big_of_digits(_)
big_of_digits(digits) ==
  IF digits = << >> THEN << >>
  ELSE big_trim(big_mul_small(big_of_digits(SubSeq(digits, 1, Len(digits) - 1)), 10,
                              digit_value(digits[Len(digits)])))

RECURSIVE big_mul_pow10(_, _)
big_mul_pow10(x, k) ==
  IF x = << >> \/ k = 0 THEN x
  ELSE big_mul_pow10(big_mul_small(x, Pow10(Min2(k, 4)), 0), k - Min2(k, 4))

(* x divided by 10^k, and whether the division left a remainder. *)
RECURSIVE big_div_pow10(_, _)
big_div_pow10(x, k) ==
  IF x = << >> \/ k = 0 THEN [q |-> x, sticky |-> FALSE]
  ELSE LET dm == big_divmod_small(x, Pow10(Min2(k, 4)))
           rest == big_div_pow10(dm.q, k - Min2(k, 4))
       IN  [q |-> rest.q, sticky |-> dm.r # 0 \/ rest.sticky]

(* Decimal exponents beyond which every non-zero value is infinite, or    *)
(* a value of one digit is rounded to zero.  The conversion recurses as    *)
(* deep as the text is long and its exponent large; the texts evaluated    *)
(* here have at most 25 characters and exponents within 150 of zero.       *)
MaxDecimalExp == 310

MinDecimalExp == -330

(* The float nearest to (-1)^neg * digits * 10^k. *)
decimal_to_float(neg, digits, k) ==
  LET n == big_of_digits(digits)
      bits == RatioBits + 4 * (0 - k)
      dm == big_div_pow10(big_shl(n, bits), 0 - k)
  IN  IF n = << >> THEN float_zero(neg)
      ELSE IF k > MaxDecimalExp THEN float_inf(neg)
      ELSE IF k + Len(digits) < MinDecimalExp THEN float_zero(neg)
      ELSE IF k >= 0 THEN float_round(neg, big_mul_pow10(n, k), 0, FALSE)
      ELSE float_round(neg, dm.q, 0 - bits, dm.sticky)

(* int(text): [ok, value], ok = FALSE standing for ValueError. *)
int(chars) ==
  LET text == strip(chars)
      body == unsigned(text)
  IN  IF is_digits(body)
      THEN [ok |-> TRUE,
            value |-> IF negative(text) THEN 0 - digits_value(digits_of(body))
                      ELSE digits_value(digits_of(body))]
      ELSE [ok |-> FALSE, value |-> 0]

(* float(text): [ok, value], ok = FALSE standing for ValueError.  Besides  *)
(* what int accepts it takes a decimal point, an exponent, and the words   *)
(* inf, infinity and nan in any case.                                      *)
float(chars) ==
  LET text == strip(chars)
      neg == negative(text)
      body == [i \in 1..Len(unsigned(text)) |-> lower(unsigned(text)[i])]
      e_at == first_index(body, {"e"})
      mantissa == IF e_at = 0 THEN body ELSE SubSeq(body, 1, e_at - 1)
      exponent == IF e_at = 0 THEN << >> ELSE SubSeq(body, e_at + 1, Len(body))
      dot_at == first_index(mantissa, {"."})
      whole == IF dot_at = 0 THEN mantissa ELSE SubSeq(mantissa, 1, dot_at - 1)
      fraction == IF dot_at = 0 THEN << >>
                  ELSE SubSeq(mantissa, dot_at + 1, Len(mantissa))
      well_formed ==
        /\ whole # << >> \/ fraction # << >>
        /\ whole = << >> \/ is_digits(whole)
        /\ fraction = << >> \/ is_digits(fraction)
        /\ e_at = 0 \/ is_digits(unsigned(exponent))
      exp_value == IF e_at = 0 THEN 0
                   ELSE IF negative(exponent)
                        THEN 0 - digits_value(digits_of(unsigned(exponent)))
                   ELSE digits_value(digits_of(unsigned(exponent)))
  IN  IF body \in {<<"i", "n", "f">>, <<"i", "n", "f", "i", "n", "i", "t", "y">>}
      THEN [ok |-> TRUE, value |-> float_inf(neg)]
      ELSE IF body = <<"n", "a", "n">> THEN [ok |-> TRUE, value |-> float_nan]
      ELSE IF well_formed
      THEN [ok |-> TRUE,
            value |-> decimal_to_float(neg, digits_of(whole) \o digits_of(fraction),
                                       exp_value - Len(digits_of(fraction)))]
      ELSE [ok |-> FALSE, value |-> float_nan]

(* `if not value`: None and the empty string are both missing. *)
is_missing(env, key) == ~ truthy(env[key])

missing_required(env) == { k \in RequiredKeySet : is_missing(env, k) }

(* The keys named by the ValueError of get_required: the arguments of      *)
(* Config(...) are evaluated in order, so the first missing key raises.    *)
get_required_error(env) ==
  LET i == CHOOSE j \in 1..Len(RequiredKeys) :
             /\ is_missing(env, RequiredKeys[j])
             /\ \A h \in 1..(j - 1) : ~ is_missing(env, RequiredKeys[h])
  IN { RequiredKeys[i] }

(* load_config: the Config it returns, or the ValueError it raises with    *)
(* the keys its message names.  The arguments of Config(...) are evaluated *)
(* in order: float() and int() of the two speed settings, the required     *)
(* keys, then int() of SMTP_PORT.                                          *)
load_config(env) ==
  LET adv == float(getenv(env, "ADVERTISED_SPEED_MBPS", <<"1", "0", "0", "0">>))
      pct == int(getenv(env, "THRESHOLD_PERCENT", <<"7", "0">>))
      port == int(getenv(env, "SMTP_PORT", <<"5", "8", "7">>))
      failure(keys) == [ok |-> FALSE, exc |-> "ValueError", keys_named |-> keys,
                        config |-> << >>]
  IN IF ~ adv.ok THEN failure({})
     ELSE IF ~ pct.ok THEN failure({})
     ELSE IF missing_required(env) # {} THEN failure(get_required_error(env))
     ELSE IF ~ port.ok THEN failure({})
     ELSE [ok |-> TRUE, exc |-> "none", keys_named |-> {},
           config |-> [advertised |-> adv.value,
                       percent |-> pct.value,
                       smtp_server |-> env["SMTP_SERVER"],
                       smtp_port |-> port.value,
                       notification_email |-> env["NOTIFICATION_EMAIL"]]]

RequiredValues == {Unset, Str(<< >>), Str(<<"x">>)}

AdvertisedValues ==
  {Unset, Str(<<"1", "0", "0", "0">>), Str(<<"0">>), Str(<<"a", "b", "c">>),
   Str(<<"9", "4", "0", ".", "5">>), Str(<<"1", "e", "3">>), Str(<<" ", "2", "_", "0", "0", "\f">>),
   Str(<<"n", "a", "n">>), Str(<<"-", "I", "n", "f">>), Str(<<"1", "_">>)}

PercentValues ==
  {Unset, Str(<<"7", "0">>), Str(<<"1", "5", "0">>), Str(<<"-", "1", "0">>),
   Str(<<"a", "b", "c">>), Str(<<"7", "0", ".", "5">>), Str(<<"\r", "5", "_", "5", " ">>),
   Str(<<"7", "_", "_", "0">>)}

OptionalValues == {Unset, Str(<< >>), Str(<<"x">>)}

PortValues ==
  {Unset, Str(<<"5", "8", "7">>), Str(<<"5", "8", "7", "\r">>), Str(<<"a", "b", "c">>),
   Str(<< >>)}

environment(required, advertised, percent, smtp_server, smtp_port, notification_email) ==
  [k \in RequiredKeySet \cup {"ADVERTISED_SPEED_MBPS", "THRESHOLD_PERCENT",
                              "SMTP_SERVER", "SMTP_PORT", "NOTIFICATION_EMAIL"} |->
     CASE k = "ADVERTISED_SPEED_MBPS" -> advertised
       [] k = "THRESHOLD_PERCENT" -> percent
       [] k = "SMTP_SERVER" -> smtp_server
       [] k = "SMTP_PORT" -> smtp_port
       [] k = "NOTIFICATION_EMAIL" -> notification_email
       [] OTHER -> required[k]]

(* The process environment a caller of load_config starts in: either any   *)
(* required key may be missing, or all are set and the numeric and the     *)
(* optional settings take any of their values.                             *)
InitConfig ==
  /\ speed_tests = << >>
  /\ complaints = << >>
  /\ now = [day |-> 1, tod |-> 0]
  /\ flow = "none" /\ pc = "idle" /\ loc = << >>
  /\ exit_code = NoExit /\ exc = "none" /\ outcome = "none"
  /\ attempts = 0 /\ aggregated = FALSE /\ emails = 0
  /\ c0 = << >> /\ s0 = << >> /\ day0 = 0 /\ db_open = FALSE
  /\ \/ \E required \in [RequiredKeySet -> RequiredValues],
           advertised \in {Unset, Str(<<"a", "b", "c">>)} :
          args = [env |-> environment(required, advertised, Unset, Unset, Unset, Unset)]
     \/ \E advertised \in AdvertisedValues, percent \in PercentValues,
           smtp_server \in OptionalValues, smtp_port \in PortValues,
           notification_email \in OptionalValues :
          args = [env |-> environment([k \in RequiredKeySet |-> Str(<<"x">>)],
                                      advertised, percent, smtp_server, smtp_port,
                                      notification_email)]

LoadConfig ==
  /\ flow = "none"
  /\ Begin("load_config", args)
  /\ loc' = load_config(args.env)
  /\ IF load_config(args.env).ok THEN Return(0) ELSE Raise(load_config(args.env).exc)
  /\ attempts' = 0 /\ aggregated' = FALSE /\ emails' = 0
  /\ UNCHANGED << speed_tests, complaints >>

NextConfig == LoadConfig

SpecConfig == InitConfig /\ [][NextConfig]_vars

(* C21: when at least one required key is absent or empty, load_config     *)
(* fails and its error names every missing required key.                   *)
C21_AllMissingKeysListed ==
  (flow = "load_config" /\ pc = "done" /\ missing_required(args.env) # {}) =>
    /\ exc = "ValueError"
    /\ loc.keys_named = missing_required(args.env)

(* C26: every Config that load_config returns has a threshold percent in   *)
(* 0..100 and a positive advertised speed, so the threshold speed lies     *)
(* between 0 and the advertised speed; other values are rejected.          *)
C26_ConfigRanges ==
  (flow = "load_config" /\ pc = "done" /\ loc.ok) =>
    /\ loc.config.percent \in 0..100
    /\ float_lt(float_of_int(0), loc.config.advertised)
    /\ float_le(float_of_int(0), threshold_speed_mbps(loc.config))
    /\ float_le(threshold_speed_mbps(loc.config), loc.config.advertised)

(* C22: the notifier is invoked only when notification is configured:     *)
(* whenever an invocation has sent a notification, SMTP_SERVER and         *)
(* NOTIFICATION_EMAIL are both set to non-empty values and --no-email is   *)
(* off.                                                                    *)
C22_NotifierOnlyWhenConfigured ==
  emails > 0 =>
    /\ args.cfg.smtp_server \notin {Unset, Str(<< >>)}
    /\ args.cfg.notification_email \notin {Unset, Str(<< >>)}
    /\ ~ args.no_email

(* A successful single-test filing has sent its notification. *)
C22_Witness ==
  /\ flow = "speed_test" /\ pc = "done" /\ outcome = "success"
  /\ emails = 1
  /\ email_enabled(args.cfg)

(* invocation ends with an exit code.                                      *)
C24_LeafErrorsCaught ==
  (/\ pc = "done"
   /\ \/ flow = "speed_test" /\ args.measurement # "ok"
      \/ outcome \in SubmissionErrors \cup {"launch_error"}
      \/ flow = "speed_test" /\ emails > 0 /\ loc.notification = "RuntimeError")
  => exc = "none"

(***************************************************************************)
(* daily_complaint.py on a day with several samples                        *)
(***************************************************************************)

(* The store holds up to MaxSamples samples measured on day 1, with any    *)
(* downloads; the daily run takes place on the last day.                   *)
InitDaily ==
  /\ \E n \in 0..MaxSamples :
       \E dl \in [1..n -> ReportDownloads] :
         speed_tests = [i \in 1..n |-> [id |-> i, timestamp |-> [day |-> 1, tod |-> 0],
                                        download_mbps |-> dl[i]]]
  /\ complaints = << >>
  /\ now = [day |-> MaxDay, tod |-> 0]
  /\ NoProcess

NextDaily ==
  \/ pc = "idle" /\
     \E cfg \in Configs, dry_run \in BOOLEAN, date_arg \in DateArgs, force \in BOOLEAN :
     \E t_report \in IF date_arg = NoDateArg THEN datetime_now(now) ELSE {now} :
     \E t_record \in IF dry_run THEN datetime_now(t_report) ELSE {t_report} :
       RunDailyComplaint(cfg, dry_run, date_arg, force, t_report, t_record)
  \/ pc = "filing" /\ \E oc \in Outcomes : DailyComplaintFiling(oc)
  \/ Exit
  \/ Tick

SpecDaily == InitDaily /\ [][NextDaily]_vars

(* The samples of a day. *)
samples_of_day(table, day) == { i \in 1..Len(table) : date_of(table[i].timestamp) = day }

(* C25: every Complaint record written by an invocation references one     *)
(* stored sample: in the single-test flow the sample measured by that      *)
(* invocation, in a daily flow a sample of the report date whose download  *)
(* is minimal among the samples of that date.                              *)
C25_ReferencesWorstSample ==
  \A i \in (Len(c0) + 1)..Len(complaints) :
    \E j \in 1..Len(speed_tests) :
      /\ speed_tests[j].id = complaints[i].speed_test_id
      /\ flow = "speed_test" => j = Len(speed_tests) /\ Len(speed_tests) = Len(s0) + 1
      /\ flow \in DailyFlows =>
           /\ j \in samples_of_day(speed_tests, loc.report_date.day)
           /\ \A k \in samples_of_day(speed_tests, loc.report_date.day) :
                speed_tests[j].download_mbps <= speed_tests[k].download_mbps

(* C27: in the single-test flow, once the measurement has succeeded the    *)
(* sample is in the store whatever its classification and whatever happens *)
(* afterwards; a complaint record or a filing attempt exists only if the   *)
(* download is strictly below advertised * percent / 100 and --test-only   *)
(* is off; with --test-only the flow returns 0 with one new sample and no  *)
(* new complaint.                                                          *)
C27_PersistThenClassify ==
  (flow = "speed_test" /\ run_speed_test(args.measurement) = "ok") =>
    LET sample == speed_tests[Len(speed_tests)] IN
      /\ Len(speed_tests) = Len(s0) + 1 /\ IsPrefix(s0, speed_tests)
      /\ ~ ts_before(now, sample.timestamp)
      /\ (Len(complaints) > Len(c0) \/ attempts > 0) =>
           /\ float_lt(float_of_int(sample.download_mbps),
                       threshold_speed_mbps(args.cfg))
           /\ ~ args.test_only
      /\ args.test_only =>
           /\ pc = "done" /\ exit_code = 0 /\ exc = "none"
           /\ complaints = c0 /\ attempts = 0

(***************************************************************************)
(* The wait for the Cloudflare challenge before the login form             *)
(***************************************************************************)

(* The three copies of the wait: fcc_complainer._login_to_fcc, the         *)
(* wait_for_cloudflare helper of file_complaint.py and the inline loop of  *)
(* laptop_client/file_complaint.py.                                        *)
Waiters == {"login_to_fcc", "wait_for_cloudflare", "laptop_client"}

LoginPolls == 12

TimeoutMins == 5

ClientPolls == 60

(* range(12), range(timeout_mins * 12), range(60) *)
max_polls(waiter) ==
  CASE waiter = "login_to_fcc" -> LoginPolls
    [] waiter = "wait_for_cloudflare" -> TimeoutMins * 12
    [] waiter = "laptop_client" -> ClientPolls

(* What a look at the page gives: whether the lower-cased title contains   *)
(* "moment" or "cloudflare", and whether the lower-cased content contains  *)
(* "cloudflare" or "just a moment".  The content includes the title.       *)
Titles == [moment : BOOLEAN, cloudflare : BOOLEAN]

Pages ==
  { p \in [title : Titles, content_cloudflare : BOOLEAN, content_moment : BOOLEAN] :
      p.title.cloudflare => p.content_cloudflare }

(* The condition under which the waiter starts to poll. *)
challenge_detected(waiter, page) ==
  CASE waiter = "login_to_fcc" -> page.title.moment \/ page.content_cloudflare
    [] waiter = "wait_for_cloudflare" -> page.title.moment \/ page.content_moment
    [] waiter = "laptop_client" -> page.title.moment

(* The condition under which a poll ends the wait. *)
challenge_cleared(waiter, title) ==
  CASE waiter = "login_to_fcc" -> ~ title.moment /\ ~ title.cloudflare
    [] waiter = "wait_for_cloudflare" -> ~ title.moment
    [] waiter = "laptop_client" -> ~ title.moment

poll_result_without_else(cleared, polls, limit) ==
  IF cleared THEN "proceed"
  ELSE IF polls = limit THEN "proceed"
  ELSE "wait"

(* One iteration of the for loop, polls counting this one: break or return *)
(* when the challenge is cleared, the else clause (or the statement after  *)
(* the loop) raises once the range is exhausted.                           *)
poll_result(cleared, polls, limit) ==
  IF cleared THEN "proceed"
  ELSE IF polls = limit THEN "RuntimeError"
  ELSE "wait"

(* The page has loaded: the waiter either starts to poll or goes on. *)
LoadPage(waiter, page) ==
  /\ Begin(waiter, [page |-> page])
  /\ loc' = [polls |-> 0, title |-> page.title,
             waited |-> challenge_detected(waiter, page)]
  /\ pc' = IF challenge_detected(waiter, page) THEN "waiting" ELSE "login"
  /\ exit_code' = NoExit /\ exc' = "none"
  /\ attempts' = 0 /\ aggregated' = FALSE /\ emails' = 0
  /\ UNCHANGED << speed_tests, complaints >>

(* time.sleep(5) and one look at the title. *)
Poll(title) ==
  /\ pc = "waiting"
  /\ LET polls == loc.polls + 1
         r == poll_result(challenge_cleared(flow, title), polls, max_polls(flow))
     IN /\ loc' = [loc EXCEPT !.polls = polls, !.title = title]
        /\ CASE r = "proceed" -> pc' = "login" /\ UNCHANGED << exit_code, exc >>
             [] r = "wait" -> pc' = "waiting" /\ UNCHANGED << exit_code, exc >>
             [] r = "RuntimeError" -> Raise("RuntimeError")
  /\ UNCHANGED << speed_tests, complaints, now, flow, args, outcome, attempts,
                  aggregated, emails, c0, s0, day0, db_open >>

(* The statements after the wait: the login form is filled. *)
FillLoginForm ==
  /\ pc = "login"
  /\ Return(0)
  /\ UNCHANGED << speed_tests, complaints, now, flow, args, loc, outcome, attempts,
                  aggregated, emails, c0, s0, day0, db_open >>

NextChallenge ==
  \/ \E waiter \in Waiters, page \in Pages : LoadPage(waiter, page)
  \/ \E title \in Titles : Poll(title)
  \/ FillLoginForm
  \/ Exit

SpecChallenge == Init /\ [][NextChallenge]_vars

(* C28: the wait for the challenge is bounded and never gives way to the   *)
(* login form while the challenge stands: _login_to_fcc polls at most 12   *)
(* times and the laptop clients at most 60 times; a waiter is still        *)
(* polling only if no poll so far saw the challenge cleared; it goes on to *)
(* the login form only from a poll that saw it cleared, and it raises      *)
(* RuntimeError only at the last poll, which still saw the challenge.      *)
C28_ChallengeWaitBounded ==
  flow \in Waiters =>
    LET limit == IF flow = "login_to_fcc" THEN 12 ELSE 60 IN
      /\ loc.polls <= limit
      /\ pc = "waiting" => loc.polls < limit
      /\ (pc = "waiting" /\ loc.polls > 0) => ~ challenge_cleared(flow, loc.title)
      /\ (pc \in {"login", "done"} /\ exc = "none" /\ loc.waited) =>
           loc.polls >= 1 /\ challenge_cleared(flow, loc.title)
      /\ exc = "RuntimeError" =>
           loc.polls = limit /\ ~ challenge_cleared(flow, loc.title)

(* _login_to_fcc gave up after its twelfth poll. *)
C28_Witness ==
  /\ flow = "login_to_fcc" /\ pc = "done" /\ exc = "RuntimeError"
  /\ loc.polls = 12 /\ loc.title.moment

(***************************************************************************)
(* fcc_complainer._submit_complaint on an arbitrary page after the click   *)
(***************************************************************************)

(* What _submit_complaint reads after the click: which of the words the    *)
(* lower-cased URL and title contain, and whether an error element is      *)
(* visible.                                                                *)
PostSubmitPages ==
  [url_new : BOOLEAN, url_requests : BOOLEAN, url_tickets : BOOLEAN,
   title_thank : BOOLEAN, title_confirmation : BOOLEAN, title_submitted : BOOLEAN,
   visible_errors : BOOLEAN]

(* The checks of _submit_complaint in their order: "None" when it returns, *)
(* by a return statement or by reaching the end of its body, otherwise the *)
(* type of the exception it raises.                                        *)
submit_complaint(page) ==
  IF ~ page.url_new /\ (page.url_requests \/ page.url_tickets) THEN "None"
  ELSE IF page.title_thank \/ page.title_confirmation \/ page.title_submitted THEN "None"
  ELSE IF page.visible_errors THEN "RuntimeError"
  ELSE IF page.url_new THEN "RuntimeError"
  ELSE "None"

(* file_fcc_complaint around it: True after a normal return, and every     *)
(* Exception becomes a RuntimeError.                                       *)
SubmitComplaint(page) ==
  /\ Begin("submit_complaint", [page |-> page])
  /\ loc' = [submit_complaint |-> submit_complaint(page),
             file_fcc_complaint |-> IF submit_complaint(page) = "None" THEN "True"
                                    ELSE "RuntimeError"]
  /\ IF submit_complaint(page) = "None" THEN Return(0) ELSE Raise(submit_complaint(page))
  /\ attempts' = 0 /\ aggregated' = FALSE /\ emails' = 0
  /\ UNCHANGED << speed_tests, complaints >>

NextSubmit ==
  \/ \E page \in PostSubmitPages : SubmitComplaint(page)
  \/ Exit

SpecSubmit == Init /\ [][NextSubmit]_vars

(* C29: _submit_complaint returns normally, and file_fcc_complaint gives   *)
(* True, only if the page after the click shows a confirmation: a URL      *)
(* without "new" that contains "requests" or "tickets", or a title with    *)
(* "thank", "confirmation" or "submitted"; otherwise it raises.            *)
C29_ReturnsOnlyOnConfirmation ==
  (flow = "submit_complaint" /\ pc = "done") =>
    ( (exc = "none" /\ loc.file_fcc_complaint = "True")
      <=> \/ ~ args.page.url_new /\ (args.page.url_requests \/ args.page.url_tickets)
          \/ args.page.title_thank
          \/ args.page.title_confirmation
          \/ args.page.title_submitted )

(* The day a daily record reports on: the day of the sample it references *)
(* (daily_complaint.main references a sample of the report date).          *)
reported_day(record, samples) ==
  date_of(samples[CHOOSE j \in 1..Len(samples) :
                    samples[j].id = record.speed_test_id].timestamp)

(* C30: once a daily complaint for report date D has been filed            *)
(* successfully by a run on a later day, a lookup made for D finds a       *)
(* successful daily record reporting on D.                                 *)
C30_LookupKeyedByReportDate ==
  ( /\ flow = "lookup" /\ pc = "done"
    /\ \E i \in 1..Len(complaints) :
         /\ complaints[i].status = "daily_filed"
         /\ reported_day(complaints[i], speed_tests) = args.date
         /\ date_of(complaints[i].timestamp) > args.date )
  => /\ loc.found # << >>
     /\ loc.found[1].status = "daily_filed"
     /\ reported_day(loc.found[1], speed_tests) = args.date

====
